---- MODULE Spec2Model ----
(***************************************************************************)
(* Guest routes of the Roommates backend (src/app/routes/guests.py) over   *)
(* the Guest table (src/app/models.py).                                    *)
(*                                                                         *)
(* Texts (JSON strings) are sequences of their numeric fields:             *)
(*   "2024-03-10" is <<2024, 3, 10>>, "10:00:00" is <<10, 0, 0>> and the   *)
(*   short ISO form "10:00" is <<10, 0>>.                                  *)
(* Parsed values (datetime.date, datetime.time) are records.               *)
(* An optional value is <<>> (None / key absent) or <<v>>.                 *)
(***************************************************************************)
EXTENDS Integers, Sequences, FiniteSets, TLC

VARIABLES
    guests,     \* the Guest table: id -> row
    nextId,     \* the next primary key the store assigns
    last,       \* the last request handled and its response
    creator,    \* history: id -> the user whose create_guest added the row
    deleted,    \* history: ids removed by a successful delete_guest
    written,    \* history: id -> payload of the latest successful write
    reqs        \* requests in flight (step-wise handlers), r -> record

vars == <<guests, nextId, last, creator, deleted, written, reqs>>

-----------------------------------------------------------------------------
(* Bounds *)

NumUsers == 2
MaxGuests == 2
MaxPage == 2
MaxPerPage == 2

Users == 1..NumUsers
GuestTypes == {1, 2}
UnknownUser == NumUsers + 1
UnknownGuestType == Cardinality(GuestTypes) + 1

None == <<>>
Some(v) == <<v>>
IsSome(o) == Len(o) = 1
Val(o) == o[1]

-----------------------------------------------------------------------------
(* datetime: dates, times and their texts *)

IsLeap(y) == (y % 4 = 0 /\ y % 100 # 0) \/ y % 400 = 0

DaysInMonth(y, m) ==
    IF m = 2 THEN (IF IsLeap(y) THEN 29 ELSE 28)
    ELSE IF m \in {4, 6, 9, 11} THEN 30 ELSE 31

ValidDateFields(y, m, d) ==
    /\ y \in 1..9999
    /\ m \in 1..12
    /\ d \in 1..DaysInMonth(y, m)

\* whether datetime.strptime(s, '%Y-%m-%d') parses s (else it raises ValueError)
IsDateText(s) == Len(s) = 3 /\ ValidDateFields(s[1], s[2], s[3])

\* datetime.strptime(s, '%Y-%m-%d').date()
strptime(s) == [year |-> s[1], month |-> s[2], day |-> s[3]]

\* date.strftime('%Y-%m-%d')
DateText(d) == <<d.year, d.month, d.day>>

\* whether time.fromisoformat(s) parses s: "HH:MM" and "HH:MM:SS" both do
IsTimeText(s) ==
    /\ Len(s) \in {2, 3}
    /\ s[1] \in 0..23
    /\ s[2] \in 0..59
    /\ (Len(s) = 3 => s[3] \in 0..59)

\* time.fromisoformat(s)
fromisoformat(s) ==
    [hour |-> s[1], minute |-> s[2],
     second |-> IF Len(s) = 3 THEN s[3] ELSE 0]

\* time.strftime('%H:%M:%S')
TimeText(t) == <<t.hour, t.minute, t.second>>

\* comparison of two datetime.date values
DateLE(a, b) ==
    \/ a.year < b.year
    \/ a.year = b.year /\ a.month < b.month
    \/ a.year = b.year /\ a.month = b.month /\ a.day <= b.day

NextDay(d) ==
    IF d.day < DaysInMonth(d.year, d.month)
    THEN [d EXCEPT !.day = d.day + 1]
    ELSE IF d.month < 12
    THEN [year |-> d.year, month |-> d.month + 1, day |-> 1]
    ELSE [year |-> d.year + 1, month |-> 1, day |-> 1]

RECURSIVE AddDays(_, _)
AddDays(d, n) == IF n = 0 THEN d ELSE AddDays(NextDay(d), n - 1)

SecondsOf(t) == t.hour * 3600 + t.minute * 60 + t.second

TimeOfSeconds(n) ==
    [hour |-> n \div 3600, minute |-> (n % 3600) \div 60, second |-> n % 60]


-----------------------------------------------------------------------------
(* The Guest model *)

\* Guest.set_exit_time(coming_date, coming_time, stay_time): the exit instant
\* is the arrival instant plus stay_time taken as a duration, split into an
\* exit date and an exit time of day; stay_time keeps the input duration.
set_exit_time(row, coming_date, coming_time, stay_time) ==
    LET total == SecondsOf(coming_time) + SecondsOf(stay_time)
    IN  [row EXCEPT !.stay_time = stay_time,
                    !.exit_date = AddDays(coming_date, total \div 86400),
                    !.exit_time = TimeOfSeconds(total % 86400)]

\* Guest.start_date, the column get_guests filters on: the arrival date
start_date(row) == row.coming_date

\* Guest.to_dict
to_dict(id, row) ==
    [id            |-> id,
     guest_type_id |-> row.guest_type_id,
     inviter_id    |-> row.inviter_id,
     coming_date   |-> DateText(row.coming_date),
     coming_time   |-> TimeText(row.coming_time),
     stay_time     |-> TimeText(row.stay_time),
     comment       |-> row.comment]

\* GuestSchema.validate(data): the names of the fields in error
validate(data) ==
       (IF data.guest_type_id \in GuestTypes THEN {} ELSE {"guest_type_id"})
  \cup (IF data.inviter_id \in Users THEN {} ELSE {"inviter_id"})
  \cup (IF IsDateText(data.coming_date) THEN {} ELSE {"coming_date"})
  \cup (IF Len(data.coming_time) = 3 /\ IsTimeText(data.coming_time)
        THEN {} ELSE {"coming_time"})
  \cup (IF Len(data.stay_time) = 3 /\ IsTimeText(data.stay_time)
        THEN {} ELSE {"stay_time"})

-----------------------------------------------------------------------------
(* The store *)

Put(store, id, row) ==
    [i \in DOMAIN store \cup {id} |-> IF i = id THEN row ELSE store[i]]

\* db.session.delete(guest); db.session.commit()
DeleteRowUnchanged(store, id) == store
DeleteRow(store, id) == [i \in DOMAIN store \ {id} |-> store[i]]

Reply(store, status, body) == [guests |-> store, status |-> status, body |-> body]

NotFound == [error |-> "Guest not found"]
Denied == [error |-> "Access denied"]

-----------------------------------------------------------------------------
(* POST /guests *)

\* data['inviter_id'] = get_jwt_identity()
InviterFromPayload(data, caller) == data
ForceInviter(data, caller) == [data EXCEPT !.inviter_id = caller]

\* the new row: Guest(...) and set_exit_time
NewGuest(data) ==
    LET coming_date == strptime(data.coming_date)
        coming_time == fromisoformat(data.coming_time)
        stay_time   == fromisoformat(data.stay_time)
        new_guest   == [guest_type_id |-> data.guest_type_id,
                        inviter_id    |-> data.inviter_id,
                        coming_date   |-> coming_date,
                        coming_time   |-> coming_time,
                        stay_time     |-> None,
                        exit_date     |-> None,
                        exit_time     |-> None,
                        comment       |-> Val(data.comment)]
    IN  set_exit_time(new_guest, coming_date, coming_time, stay_time)

create_guest(store, id, caller, payload) ==
    LET data   == ForceInviter(payload, caller)
        errors == validate(data)
    IN  IF errors # {} THEN Reply(store, 400, [errors |-> errors])
        ELSE IF ~IsSome(data.comment) THEN Reply(store, 500, [error |-> "KeyError"])
        ELSE Reply(Put(store, id, NewGuest(data)), 201, to_dict(id, NewGuest(data)))

-----------------------------------------------------------------------------
(* GET /guests/<id> *)

get_guest(store, guest_id) ==
    IF guest_id \notin DOMAIN store THEN Reply(store, 404, NotFound)
    ELSE Reply(store, 200, to_dict(guest_id, store[guest_id]))

-----------------------------------------------------------------------------
(* PUT /guests/<id> *)

\* if current_user_id != guest.inviter_id: 403
NeverDenied(caller, guest) == FALSE
AccessDenied(caller, guest) == caller # guest.inviter_id

\* the assignments of update_guest to the fetched row
UpdatedGuestKeepsExit(guest, data) ==
    [guest EXCEPT !.guest_type_id = data.guest_type_id,
                  !.inviter_id    = data.inviter_id,
                  !.coming_date   = strptime(data.coming_date),
                  !.coming_time   = fromisoformat(data.coming_time),
                  !.comment       = Val(data.comment)]
UpdatedGuestKeepsComment(guest, data) ==
    LET coming_date == strptime(data.coming_date)
        coming_time == fromisoformat(data.coming_time)
        stay_time   == fromisoformat(data.stay_time)
        g == [guest EXCEPT !.guest_type_id = data.guest_type_id,
                           !.inviter_id    = data.inviter_id,
                           !.coming_date   = strptime(data.coming_date),
                           !.coming_time   = fromisoformat(data.coming_time)]
    IN  set_exit_time(g, coming_date, coming_time, stay_time)
UpdatedGuest(guest, data) ==
    LET coming_date == strptime(data.coming_date)
        coming_time == fromisoformat(data.coming_time)
        stay_time   == fromisoformat(data.stay_time)
        g == [guest EXCEPT !.guest_type_id = data.guest_type_id,
                           !.inviter_id    = data.inviter_id,
                           !.coming_date   = strptime(data.coming_date),
                           !.coming_time   = fromisoformat(data.coming_time)]
    IN  [set_exit_time(g, coming_date, coming_time, stay_time)
            EXCEPT !.comment = Val(data.comment)]

\* a handler that assigns the fields it can before it validates
update_guest_writes_first(store, caller, guest_id, data) ==
    IF guest_id \notin DOMAIN store THEN Reply(store, 404, NotFound)
    ELSE IF AccessDenied(caller, store[guest_id]) THEN Reply(store, 403, Denied)
    ELSE LET typed == Put(store, guest_id,
                          [store[guest_id] EXCEPT !.guest_type_id = data.guest_type_id])
             errors == validate(data)
         IN  IF errors # {} THEN Reply(typed, 400, [errors |-> errors])
             ELSE IF ~IsSome(data.comment) THEN Reply(store, 500, [error |-> "KeyError"])
             ELSE Reply(Put(store, guest_id, UpdatedGuest(store[guest_id], data)), 200,
                        to_dict(guest_id, UpdatedGuest(store[guest_id], data)))
update_guest(store, caller, guest_id, data) ==
    IF guest_id \notin DOMAIN store THEN Reply(store, 404, NotFound)
    ELSE IF AccessDenied(caller, store[guest_id]) THEN Reply(store, 403, Denied)
    ELSE LET errors == validate(data)
         IN  IF errors # {} THEN Reply(store, 400, [errors |-> errors])
             ELSE IF ~IsSome(data.comment) THEN Reply(store, 500, [error |-> "KeyError"])
             ELSE Reply(Put(store, guest_id, UpdatedGuest(store[guest_id], data)), 200,
                        to_dict(guest_id, UpdatedGuest(store[guest_id], data)))

-----------------------------------------------------------------------------
(* DELETE /guests/<id> *)

delete_guest(store, caller, guest_id) ==
    IF guest_id \notin DOMAIN store THEN Reply(store, 404, NotFound)
    ELSE IF AccessDenied(caller, store[guest_id]) THEN Reply(store, 403, Denied)
    ELSE Reply(DeleteRow(store, guest_id), 204, None)

-----------------------------------------------------------------------------
(* GET /guests *)

\* the where-clauses get_guests adds to db.select(Guest)
Selected(store, q) ==
    {id \in DOMAIN store :
        /\ (IsSome(q.inviter_id) /\ Val(q.inviter_id) # 0) =>
              store[id].inviter_id = Val(q.inviter_id)
        /\ (IsSome(q.guest_type_id) /\ Val(q.guest_type_id) # 0) =>
              store[id].guest_type_id = Val(q.guest_type_id)
        /\ IsSome(q.start_date) =>
              DateLE(strptime(Val(q.start_date)), start_date(store[id]))
        /\ IsSome(q.start_date) =>
              DateLE(start_date(store[id]), strptime(Val(q.end_date)))}

\* strptime(end_date_str, ...) with end_date_str None raises TypeError
QueryRaises(q) == IsSome(q.start_date) /\ ~IsSome(q.end_date)

Min(S) == CHOOSE m \in S : \A n \in S : m <= n

RECURSIVE Ascending(_)
Ascending(S) == IF S = {} THEN <<>> ELSE <<Min(S)>> \o Ascending(S \ {Min(S)})

\* db.paginate(select, page=, per_page=): rows in primary-key order
paginate(ids, page, per_page) ==
    LET rows  == Ascending(ids)
        total == Len(rows)
        first == (page - 1) * per_page + 1
        lastr == IF page * per_page < total THEN page * per_page ELSE total
        pages == (total + per_page - 1) \div per_page
        items == SubSeq(rows, first, lastr)
    IN  [abort    |-> items = <<>> /\ page # 1,
         items    |-> items,
         total    |-> total,
         has_prev |-> page > 1,
         prev_num |-> page - 1,
         has_next |-> page < pages,
         next_num |-> page + 1]

\* prev_page / next_page of the response
PageNum(has, num) == IF has THEN Some(num) ELSE None

get_guests(store, q) ==
    IF QueryRaises(q) THEN Reply(store, 500, [error |-> "TypeError"])
    ELSE LET resulting_page == paginate(Selected(store, q), q.page, q.per_page)
             guests_ == resulting_page.items
         IN  IF resulting_page.abort THEN Reply(store, 404, [error |-> "Not Found"])
             ELSE Reply(store, 200,
                    [guests |-> [i \in 1..Len(guests_) |->
                                    to_dict(guests_[i], store[guests_[i]])],
                     total_guests |-> resulting_page.total,
                     prev_page |-> PageNum(resulting_page.has_prev, resulting_page.prev_num),
                     next_page |-> PageNum(resulting_page.has_next, resulting_page.next_num)])

-----------------------------------------------------------------------------
(* Requests *)

D0229 == <<2024, 2, 29>>
D0310 == <<2024, 3, 10>>
D0311 == <<2024, 3, 11>>

Payload(type, inviter, date, time, stay, comment) ==
    [guest_type_id |-> type, inviter_id |-> inviter, coming_date |-> date,
     coming_time |-> time, stay_time |-> stay, comment |-> comment]

\* well-formed bodies: same day, past midnight over a month end, exactly 24:00:00
GoodPayloads ==
    UNION {{Payload(1, u, D0310, <<10, 0, 0>>, <<1, 30, 0>>, Some("a")),
            Payload(2, u, D0229, <<23, 0, 0>>, <<2, 30, 0>>, Some("b")),
            Payload(2, u, D0311, <<22, 30, 0>>, <<1, 30, 0>>, Some("a"))} : u \in Users}

\* bodies with an unknown guest type, a short time, no such date, an unknown
\* inviter, and no comment key
OddPayloads ==
    {Payload(UnknownGuestType, 1, D0310, <<10, 0, 0>>, <<1, 30, 0>>, Some("a")),
     Payload(1, 1, D0310, <<10, 0>>, <<1, 30, 0>>, Some("a")),
     Payload(1, 1, <<2024, 2, 30>>, <<10, 0, 0>>, <<1, 30, 0>>, Some("a")),
     Payload(1, UnknownUser, D0310, <<10, 0, 0>>, <<1, 30, 0>>, Some("a")),
     Payload(1, 1, D0310, <<10, 0, 0>>, <<1, 30, 0>>, None)}

Payloads == GoodPayloads \cup OddPayloads

OptDates == {None, Some(D0310)}

Queries ==
    [page : 1..MaxPage, per_page : 1..MaxPerPage,
     inviter_id : {None, Some(1)}, guest_type_id : {None, Some(2)},
     start_date : OptDates, end_date : OptDates]

GuestIds == 1..MaxGuests

\* the fields of a body that a later GET of the guest is compared with
Sent(payload) ==
    [guest_type_id |-> payload.guest_type_id,
     coming_date   |-> payload.coming_date,
     coming_time   |-> payload.coming_time,
     stay_time     |-> payload.stay_time,
     comment       |-> Val(payload.comment)]

Call(op, caller, guest_id, data, r) ==
    [op |-> op, caller |-> caller, guest_id |-> guest_id, data |-> data,
     status |-> r.status, body |-> r.body]

-----------------------------------------------------------------------------
(* The handlers, one request at a time *)

Init ==
    /\ guests = <<>>
    /\ nextId = 1
    /\ last = [op |-> "none", caller |-> 0, guest_id |-> 0, data |-> None,
               status |-> 0, body |-> None]
    /\ creator = <<>>
    /\ deleted = {}
    /\ written = <<>>
    /\ reqs = <<>>

GetGuests ==
    \E q \in Queries :
        LET r == get_guests(guests, q)
        IN  /\ guests' = r.guests
            /\ last' = Call("get_guests", 0, 0, q, r)
            /\ UNCHANGED <<nextId, creator, deleted, written, reqs>>

CreateGuest ==
    \E caller \in Users, payload \in Payloads :
        LET r == create_guest(guests, nextId, caller, payload)
        IN  /\ r.status = 201 => nextId <= MaxGuests
            /\ guests' = r.guests
            /\ last' = Call("create_guest", caller,
                            IF r.status = 201 THEN nextId ELSE 0, payload, r)
            /\ IF r.status = 201
               THEN /\ nextId' = nextId + 1
                    /\ creator' = Put(creator, nextId, caller)
                    /\ written' = Put(written, nextId, Sent(payload))
               ELSE UNCHANGED <<nextId, creator, written>>
            /\ UNCHANGED <<deleted, reqs>>

GetGuest ==
    \E caller \in Users, guest_id \in GuestIds :
        LET r == get_guest(guests, guest_id)
        IN  /\ guests' = r.guests
            /\ last' = Call("get_guest", caller, guest_id, None, r)
            /\ UNCHANGED <<nextId, creator, deleted, written, reqs>>

UpdateGuest ==
    \E caller \in Users, guest_id \in GuestIds, payload \in Payloads :
        LET r == update_guest(guests, caller, guest_id, payload)
        IN  /\ guests' = r.guests
            /\ last' = Call("update_guest", caller, guest_id, payload, r)
            /\ written' = IF r.status = 200 THEN Put(written, guest_id, Sent(payload))
                          ELSE written
            /\ UNCHANGED <<nextId, creator, deleted, reqs>>

DeleteGuest ==
    \E caller \in Users, guest_id \in GuestIds :
        LET r == delete_guest(guests, caller, guest_id)
        IN  /\ guests' = r.guests
            /\ last' = Call("delete_guest", caller, guest_id, None, r)
            /\ deleted' = IF r.status = 204 THEN deleted \cup {guest_id} ELSE deleted
            /\ UNCHANGED <<nextId, creator, written, reqs>>

Next == GetGuests \/ CreateGuest \/ GetGuest \/ UpdateGuest \/ DeleteGuest

Spec == Init /\ [][Next]_vars

-----------------------------------------------------------------------------
(* The handlers step by step: two requests in flight, each with its own     *)
(* session.  A request fetches its row (db.session.get), checks the owner,  *)
(* then validates, assigns and commits.                                     *)

Columns == {"guest_type_id", "inviter_id", "coming_date", "coming_time",
            "stay_time", "exit_date", "exit_time", "comment"}

\* db.session.commit() after attribute assignment: the unit of work emits
\* UPDATE guest SET <the columns whose value changed> WHERE id = <id>
Flush(store, id, loaded, assigned) ==
    Put(store, id,
        [c \in Columns |-> IF assigned[c] # loaded[c] THEN assigned[c] ELSE store[id][c]])

ConcStore ==
    LET one == create_guest(<<>>, 1, 1,
                   Payload(1, 1, D0310, <<10, 0, 0>>, <<1, 30, 0>>, Some("a"))).guests
    IN  create_guest(one, 2, 2,
                   Payload(2, 2, D0229, <<23, 0, 0>>, <<2, 30, 0>>, Some("b"))).guests

\* bodies that each change one column of guest 1, and a malformed one
ConcPayloads ==
    {Payload(2, 1, D0310, <<10, 0, 0>>, <<1, 30, 0>>, Some("a")),
     Payload(1, 1, D0310, <<10, 0, 0>>, <<1, 30, 0>>, Some("b")),
     Payload(1, 2, D0310, <<10, 0, 0>>, <<1, 30, 0>>, Some("a")),
     Payload(1, 1, D0310, <<10, 0>>, <<1, 30, 0>>, Some("a"))}

ConcCalls ==
    [op : {"update_guest"}, caller : Users, guest_id : GuestIds, data : ConcPayloads]
    \cup [op : {"delete_guest"}, caller : Users, guest_id : GuestIds, data : {None}]

Request(call) ==
    [call |-> call, pc |-> "start", guest |-> None, status |-> 0]

InitConc ==
    /\ guests = ConcStore
    /\ nextId = Cardinality(DOMAIN ConcStore) + 1
    /\ last = [op |-> "none", caller |-> 0, guest_id |-> 0, data |-> None,
               status |-> 0, body |-> None]
    /\ creator = [i \in DOMAIN ConcStore |-> ConcStore[i].inviter_id]
    /\ deleted = {}
    /\ written = <<>>
    /\ \E c1 \in ConcCalls, c2 \in ConcCalls : reqs = <<Request(c1), Request(c2)>>

Finish(r, status) ==
    reqs' = [reqs EXCEPT ![r].pc = "done", ![r].status = status]

\* guest = db.session.get(Guest, {'id': guest_id}); 404 when there is none
Fetch(r) ==
    /\ reqs[r].pc = "start"
    /\ IF reqs[r].call.guest_id \in DOMAIN guests
       THEN reqs' = [reqs EXCEPT ![r].pc = "fetched",
                                 ![r].guest = guests[reqs[r].call.guest_id]]
       ELSE Finish(r, 404)
    /\ UNCHANGED <<guests, nextId, last, creator, deleted, written>>

\* the owner check on the fetched row
Check(r) ==
    /\ reqs[r].pc = "fetched"
    /\ IF AccessDenied(reqs[r].call.caller, reqs[r].guest)
       THEN Finish(r, 403)
       ELSE reqs' = [reqs EXCEPT ![r].pc = "checked"]
    /\ UNCHANGED <<guests, nextId, last, creator, deleted, written>>

\* update_guest from validation to db.session.commit()
CommitUpdate(r) ==
    /\ reqs[r].pc = "checked"
    /\ reqs[r].call.op = "update_guest"
    /\ LET id       == reqs[r].call.guest_id
           data     == reqs[r].call.data
           assigned == UpdatedGuest(reqs[r].guest, data)
       IN  IF validate(data) # {}
           THEN Finish(r, 400) /\ guests' = guests
           ELSE IF assigned = reqs[r].guest
           THEN Finish(r, 200) /\ guests' = guests
           ELSE IF id \notin DOMAIN guests
           THEN Finish(r, 500) /\ guests' = guests
           ELSE Finish(r, 200) /\ guests' = Flush(guests, id, reqs[r].guest, assigned)
    /\ UNCHANGED <<nextId, last, creator, deleted, written>>

\* db.session.delete(guest); db.session.commit()
CommitDelete(r) ==
    /\ reqs[r].pc = "checked"
    /\ reqs[r].call.op = "delete_guest"
    /\ Finish(r, 204)
    /\ guests' = DeleteRow(guests, reqs[r].call.guest_id)
    /\ UNCHANGED <<nextId, last, creator, deleted, written>>

NextConc ==
    \E r \in {1, 2} : Fetch(r) \/ Check(r) \/ CommitUpdate(r) \/ CommitDelete(r)

SpecConc == InitConc /\ [][NextConc]_vars

\* one call handled alone
Handle(store, call) ==
    IF call.op = "update_guest"
    THEN update_guest(store, call.caller, call.guest_id, call.data)
    ELSE delete_guest(store, call.caller, call.guest_id)

\* the calls of requests a then b handled one after the other
Serial(a, b) ==
    LET first  == Handle(ConcStore, reqs[a].call)
        second == Handle(first.guests, reqs[b].call)
    IN  [guests |-> second.guests,
         status |-> [r \in {a, b} |-> IF r = a THEN first.status ELSE second.status]]

AllDone == \A r \in DOMAIN reqs : reqs[r].pc = "done"

-----------------------------------------------------------------------------
(* Properties *)

Succeeded == last.status \in {200, 201, 204}
Failed(status) == status \in {400, 403, 404}

ItemIds(body) == {body.guests[i].id : i \in 1..Len(body.guests)}

\* the guests of a store that satisfy every filter a query provides
Matching(store, q) ==
    {id \in DOMAIN store :
        /\ IsSome(q.inviter_id) => store[id].inviter_id = Val(q.inviter_id)
        /\ IsSome(q.guest_type_id) => store[id].guest_type_id = Val(q.guest_type_id)
        /\ IsSome(q.start_date) =>
              DateLE(strptime(Val(q.start_date)), store[id].coming_date)
        /\ IsSome(q.end_date) =>
              DateLE(store[id].coming_date, strptime(Val(q.end_date)))}

\* C1: the guest a successful create_guest adds has the caller as its
\* inviter_id, whatever inviter_id the body names.
C1_CreateInviterIsCaller ==
    (last.op = "create_guest" /\ last.status = 201) =>
        /\ last.guest_id \in DOMAIN guests
        /\ guests[last.guest_id].inviter_id = last.caller
        /\ last.body.inviter_id = last.caller

C1_Witness ==
    /\ last.op = "create_guest"
    /\ last.status = 201
    /\ last.data.inviter_id # last.caller
    /\ guests[last.guest_id].inviter_id = last.caller

\* C2: update_guest and delete_guest of an existing guest by a caller who is
\* not its inviter_id answer 403 'Access denied' whatever the body; they
\* answer 404 exactly when the id is not in the store.
C2_Step ==
    last'.op \in {"update_guest", "delete_guest"} =>
        /\ (/\ last'.guest_id \in DOMAIN guests
            /\ guests[last'.guest_id].inviter_id # last'.caller)
              => (last'.status = 403 /\ last'.body = Denied)
        /\ last'.status = 404 <=> last'.guest_id \notin DOMAIN guests

C2_DeniedNotMissing == [][C2_Step]_vars

C2_Witness ==
    /\ last.op = "update_guest"
    /\ last.status = 403
    /\ validate(last.data) # {}
    /\ last.guest_id \in DOMAIN guests

\* C3: every successful update_guest or delete_guest of a guest is issued by
\* the user who created that guest.
C3_OnlyCreatorMutates ==
    (last.op \in {"update_guest", "delete_guest"} /\ Succeeded) =>
        last.caller = creator[last.guest_id]

\* C4: each stored guest's exit date and exit time are its arrival instant
\* plus its stay_time as a duration, for the values of its latest write; the
\* exit date is the next day when coming_time + stay_time reaches 24:00:00.
C4_ExitOf(g) ==
    LET total == SecondsOf(g.coming_time) + SecondsOf(g.stay_time)
    IN  /\ total < 86400 =>
              /\ g.exit_date = g.coming_date
              /\ SecondsOf(g.exit_time) = total
        /\ total >= 86400 =>
              /\ g.exit_date = NextDay(g.coming_date)
              /\ SecondsOf(g.exit_time) = total - 86400
        /\ (TimeText(g.coming_time) = <<23, 0, 0>> /\ TimeText(g.stay_time) = <<2, 30, 0>>)
              => TimeText(g.exit_time) = <<1, 30, 0>>
        /\ (TimeText(g.coming_time) = <<10, 0, 0>> /\ TimeText(g.stay_time) = <<1, 30, 0>>)
              => TimeText(g.exit_time) = <<11, 30, 0>>
        /\ (DateText(g.coming_date) = D0229 /\ total >= 86400)
              => DateText(g.exit_date) = <<2024, 3, 1>>

C5_ListMatchesProvidedFilters ==
    (last.op = "get_guests" /\ last.status = 200) =>
        /\ ItemIds(last.body) \subseteq Matching(guests, last.data)
        /\ (last.data.page = 1 /\ Cardinality(Matching(guests, last.data)) <= last.data.per_page)
              => ItemIds(last.body) = Matching(guests, last.data)

\* C6: prev_page is null on page 1 and page-1 otherwise, next_page is page+1
\* when a further page exists and null otherwise, total_guests is the number
\* of guests matching the filters, and at most per_page guests are returned.
C6_Pagination ==
    (last.op = "get_guests" /\ last.status = 200) =>
        LET q == last.data
            n == Cardinality(Matching(guests, q))
        IN  /\ last.body.prev_page = IF q.page = 1 THEN None ELSE Some(q.page - 1)
            /\ last.body.next_page = IF q.page * q.per_page < n THEN Some(q.page + 1) ELSE None
            /\ last.body.total_guests = n
            /\ Len(last.body.guests) <= q.per_page

\* C7: a create_guest, update_guest or delete_guest that answers 400, 403 or
\* 404 leaves the store as it was; get_guests and get_guest never change it.
C7_Step ==
    /\ (last'.op \in {"create_guest", "update_guest", "delete_guest"} /\ Failed(last'.status))
          => guests' = guests
    /\ last'.op \in {"get_guests", "get_guest"} => guests' = guests

C7_FailureLeavesStore == [][C7_Step]_vars

C7_Witness ==
    /\ last.op = "update_guest"
    /\ last.status = 400
    /\ last.guest_id \in DOMAIN guests
    /\ guests[last.guest_id].inviter_id = last.caller

\* C8: once delete_guest has removed a guest it stays absent: later
\* get_guest, update_guest and delete_guest of its id answer 404 and no
\* listing holds it; before that get_guest succeeds for every caller.
C8_Step ==
    /\ deleted \subseteq deleted'
    /\ deleted' \cap DOMAIN guests' = {}
    /\ (last'.op \in {"get_guest", "update_guest", "delete_guest"} /\ last'.guest_id \in deleted)
          => last'.status = 404
    /\ (last'.op = "get_guests" /\ last'.status = 200)
          => ItemIds(last'.body) \cap deleted = {}
    /\ (last'.op = "get_guest" /\ last'.guest_id \in DOMAIN guests)
          => (last'.status = 200 /\ last'.body.id = last'.guest_id)

C8_DeletedStaysAbsent == [][C8_Step]_vars

C8_Witness ==
    /\ last.op = "update_guest"
    /\ last.guest_id \in deleted
    /\ last.status = 404
    /\ guests # <<>>

\* C9: get_guest returns the guest_type_id, coming_date, coming_time,
\* stay_time and comment of the latest successful create_guest or
\* update_guest of that guest, and so do the answers to those writes.
C9_Fields(body) ==
    [guest_type_id |-> body.guest_type_id,
     coming_date   |-> body.coming_date,
     coming_time   |-> body.coming_time,
     stay_time     |-> body.stay_time,
     comment       |-> body.comment]

C10_AsIfSerial ==
    (Len(reqs) = 2 /\ AllDone) =>
        IF reqs[1].call.guest_id # reqs[2].call.guest_id
        THEN \A o \in {Serial(1, 2), Serial(2, 1)} :
                /\ guests = o.guests
                /\ \A r \in {1, 2} : reqs[r].status = o.status[r]
        ELSE guests \in {Serial(1, 2).guests, Serial(2, 1).guests}

\* the part of C10 about distinct guests
C10_DistinctGuestsIndependent ==
    (Len(reqs) = 2 /\ AllDone /\ reqs[1].call.guest_id # reqs[2].call.guest_id) =>
        \A o \in {Serial(1, 2), Serial(2, 1)} :
            /\ guests = o.guests
            /\ \A r \in {1, 2} : reqs[r].status = o.status[r]

=============================================================================
